---- MODULE Spec2Model ----
(***************************************************************************)
(* A model of the Workforce Solutions map generator (src/app.py) and of    *)
(* the county pre-filter (src/shrink.py).                                  *)
(*                                                                         *)
(* The plane is a row of unit cells.  A geometry is a closed point set:    *)
(* the cells it covers, plus lower-dimensional pieces (shared edges,       *)
(* isolated points) that lie outside the closure of its cells.  The        *)
(* geometry type is the one shapely reports for such a set.                *)
(***************************************************************************)
EXTENDS Integers, FiniteSets, Sequences, TLC

VARIABLES
    county_shp,        \* texas_counties.shp on disk (rows)
    cities_shp,        \* Cities.shp on disk (rows)
    isd_shp,           \* tl_2025_48_unsd.shp on disk (rows)
    cache_dir_exists,  \* the directory <cwd>/tile_cache exists on disk
    tile_cache,        \* basemap extents whose tiles are stored in tile_cache
    load_data_cache,   \* st.cache_data holds the result of load_data()
    session,           \* number of browser sessions opened so far
    map_type,          \* widget state: "gulf" | "brazoria"
    min_area,          \* widget state: slider, in hundredths of a sq mile
    use_adjust_text,   \* widget state: checkbox
    run,               \* what the last run of the script produced
    gdf_in,            \* argument of a direct call of clean_geoms
    gdf_out            \* its result

vars == <<county_shp, cities_shp, isd_shp, cache_dir_exists, tile_cache,
          load_data_cache, session, map_type, min_area, use_adjust_text,
          run, gdf_in, gdf_out>>

(***************************************************************************)
(* Bounds of the model.                                                    *)
(***************************************************************************)
MaxCityCells == 2      \* a city or district polygon covers at most this many cells
MaxSessions == 2       \* browser sessions opened in one behaviour
MaxRows == 2           \* rows of a frame handed directly to clean_geoms

(***************************************************************************)
(* The plane.  Cells 1, 2, 3 are adjacent in a row (cell c lies between    *)
(* the edges c-1 and c); cell 5 is far away (its edges 4 and 5 touch       *)
(* nothing else).                                                          *)
(***************************************************************************)
Cells == {1, 2, 3, 5}
TexasCells == {1, 2, 3}

Bd(c) == {c - 1, c}

BdOf(cs) == UNION {Bd(c) : c \in cs}

\* cs is a run of adjacent cells
Connected(cs) == \A a \in cs : \A b \in cs : \A m \in a .. b : m \in cs

\* shapely's geom_type of a non-empty point set
TypeOf(cells, lines, points) ==
    IF cells # {} /\ lines = {} /\ points = {}
    THEN (IF Connected(cells) THEN "Polygon" ELSE "MultiPolygon")
    ELSE IF cells = {} /\ lines # {} /\ points = {}
    THEN (IF Cardinality(lines) = 1 THEN "LineString" ELSE "MultiLineString")
    ELSE IF cells = {} /\ lines = {} /\ points # {}
    THEN "Point"
    ELSE "GeometryCollection"

MkGeom(cells, lines, points) ==
    [type |-> TypeOf(cells, lines, points), cells |-> cells,
     lines |-> lines, points |-> points]

\* a polygonal geometry covering the cells cs
Poly(cs) == MkGeom(cs, {}, {})

\* an empty geometry keeps the type it was built with (POLYGON EMPTY, ...)
EmptyGeom(t) == [type |-> t, cells |-> {}, lines |-> {}, points |-> {}]

is_empty(g) == g.cells = {} /\ g.lines = {} /\ g.points = {}

\* every edge that belongs to the closed point set g
Closure(g) == BdOf(g.cells) \cup g.lines

\* shapely intersection of two closed point sets
Intersection(g, m) ==
    LET cs == g.cells \cap m.cells
        ls == (Closure(g) \cap Closure(m)) \ BdOf(cs)
        ps == g.points \cap m.points
    IN IF cs = {} /\ ls = {} /\ ps = {}
       THEN EmptyGeom("Polygon")
       ELSE MkGeom(cs, ls, ps)

intersects(g, m) == ~is_empty(Intersection(g, m))

\* g lies entirely inside m
Within(g, m) ==
    /\ g.cells \subseteq m.cells
    /\ Closure(g) \subseteq Closure(m)
    /\ g.points \subseteq m.points

(***************************************************************************)
(* Data frames.  A GeoDataFrame is its CRS and its set of rows (each row   *)
(* carries its index label idx); None is a value of its own.               *)
(***************************************************************************)
NoneValue == [kind |-> "None"]

Gdf(crs, rows) == [kind |-> "GeoDataFrame", crs |-> crs, rows |-> rows]

is_none(gdf) == gdf.kind = "None"

empty(gdf) == gdf.rows = {}

to_crs(gdf, epsg) == Gdf(epsg, gdf.rows)

(***************************************************************************)
(* clean_geoms: drop what clipping leaves behind that is not a polygon.    *)
(***************************************************************************)
clean_geoms_keeps_collections(gdf) ==
    IF is_none(gdf) \/ empty(gdf)
    THEN gdf
    ELSE LET nonempty == {r \in gdf.rows : ~is_empty(r.geometry)}
         IN Gdf(gdf.crs,
                {r \in nonempty :
                    r.geometry.type \in {"Polygon", "MultiPolygon", "GeometryCollection"}})

clean_geoms(gdf) ==
    IF is_none(gdf) \/ empty(gdf)
    THEN gdf
    ELSE LET nonempty == {r \in gdf.rows : ~is_empty(r.geometry)}
         IN Gdf(gdf.crs,
                {r \in nonempty : r.geometry.type \in {"Polygon", "MultiPolygon"}})

(***************************************************************************)
(* shrink.py: keep the Texas rows of the national county file.             *)
(***************************************************************************)
\* tl_2025_us_county.shp: Brazoria, Matagorda and Jackson are neighbours in
\* Texas; Liberty County, Georgia, has the name of a target county.
tl_2025_us_county ==
    Gdf("4269",
        {[idx |-> 0, NAME |-> "Brazoria",  STATEFP |-> "48", geometry |-> Poly({1})],
         [idx |-> 1, NAME |-> "Matagorda", STATEFP |-> "48", geometry |-> Poly({2})],
         [idx |-> 2, NAME |-> "Jackson",   STATEFP |-> "48", geometry |-> Poly({3})],
         [idx |-> 3, NAME |-> "Liberty",   STATEFP |-> "13", geometry |-> Poly({5})]})

shrink(gdf) == Gdf(gdf.crs, {r \in gdf.rows : r.STATEFP = "48"})

(***************************************************************************)
(* Loading and the derived area column (app.py, lines 34-61).              *)
(* The three shapefiles are present and readable and do not change, so a   *)
(* cached load returns what a fresh read would; the branch that reports a  *)
(* failed load and stops the script (lines 63-65) is never taken.          *)
(***************************************************************************)
load_data ==
    [gdf_counties |-> Gdf("4269", county_shp),
     gdf_places   |-> Gdf("4326", cities_shp),
     gdf_isds     |-> Gdf("4269", isd_shp)]

\* geometry.area in the units of the CRS: a cell measures 10 km^2 in
\* EPSG:3857; in a geographic CRS it measures a fraction of a square degree.
area(g, crs) == IF crs = "3857" THEN 10 * Cardinality(g.cells) ELSE 0

\* area * 3.86102e-7 (m^2 to sq miles), kept in hundredths of a sq mile
sq_mi(a) == (a * 386102) \div 10000

\* lines 50-51: reproject, then add the column area_sq_mi
with_area(gdf) ==
    LET g3857 == to_crs(gdf, "3857")
    IN Gdf(g3857.crs,
           {[idx |-> r.idx, CITY_NM |-> r.CITY_NM, geometry |-> r.geometry,
             area_sq_mi |-> sq_mi(area(r.geometry, g3857.crs))] : r \in g3857.rows})

target_counties ==
    {"Austin", "Brazoria", "Chambers", "Colorado", "Fort Bend", "Galveston",
     "Harris", "Liberty", "Matagorda", "Montgomery", "Walker", "Waller", "Wharton"}

region_gdf(counties) ==
    Gdf(counties.crs,
        {r \in counties.rows : r.NAME \in target_counties /\ r.STATEFP = "48"})

(***************************************************************************)
(* geopandas.clip(gdf, mask): the rows of gdf that meet the union of the   *)
(* mask's geometries, each cut down to its intersection with that union;   *)
(* every other column is carried over.  An empty mask clips to no rows.    *)
(***************************************************************************)
union_all(gdf) ==
    LET cs == UNION {r.geometry.cells : r \in gdf.rows}
        ls == UNION {r.geometry.lines : r \in gdf.rows} \ BdOf(cs)
        ps == UNION {r.geometry.points : r \in gdf.rows}
    IN IF cs = {} /\ ls = {} /\ ps = {} THEN EmptyGeom("GeometryCollection")
       ELSE MkGeom(cs, ls, ps)

set_geometry(r, g) == [r EXCEPT !.geometry = g]

\* a clip that measured the clipped part again
clip_recomputes_area(gdf, mask) ==
    LET m == union_all(mask)
        hit == {q \in gdf.rows : intersects(q.geometry, m)}
        cut(r) == Intersection(r.geometry, m)
    IN Gdf(gdf.crs,
           {IF "area_sq_mi" \in DOMAIN r
            THEN [set_geometry(r, cut(r)) EXCEPT !.area_sq_mi = sq_mi(area(cut(r), gdf.crs))]
            ELSE set_geometry(r, cut(r)) : r \in hit})

\* a clip that selected the rows without cutting them
clip_keeps_whole_geometry(gdf, mask) ==
    LET m == union_all(mask)
    IN Gdf(gdf.crs, {r \in gdf.rows : intersects(r.geometry, m)})

clip(gdf, mask) ==
    LET m == union_all(mask)
        hit == {q \in gdf.rows : intersects(q.geometry, m)}
    IN IF empty(mask)
       THEN Gdf(gdf.crs, {})
       ELSE Gdf(gdf.crs, {set_geometry(r, Intersection(r.geometry, m)) : r \in hit})

(***************************************************************************)
(* Map preparation (app.py, lines 89-109).                                 *)
(***************************************************************************)
brazoria_gdf(region) == Gdf(region.crs, {r \in region.rows : r.NAME = "Brazoria"})

\* the frame whose union is the boundary of the selected mode
main_gdf(mt, region) == IF mt = "gulf" THEN region ELSE brazoria_gdf(region)

title(mt) ==
    IF mt = "gulf" THEN "Workforce Solutions Gulf Coast Region"
    ELSE "Brazoria County: City Limits & ISDs"

\* a mode switch that left the district layer on
display_isds_always(mt, clipped_isds) == clipped_isds

display_isds(mt, clipped_isds) == IF mt = "gulf" THEN NoneValue ELSE clipped_isds

\* a filter with an exclusive bound
display_cities_strict(clipped_cities, ma) ==
    Gdf(clipped_cities.crs, {r \in clipped_cities.rows : r.area_sq_mi > ma})

display_cities(clipped_cities, ma) ==
    Gdf(clipped_cities.crs, {r \in clipped_cities.rows : r.area_sq_mi >= ma})

\* everything the script computes between the sidebar and the tabs
prepare(mt, ma) ==
    LET data == load_data
        places == with_area(data.gdf_places)
        region == region_gdf(data.gdf_counties)
        main == main_gdf(mt, region)
        main_3857 == to_crs(main, "3857")
        clipped_cities == clean_geoms(clip(places, main_3857))
        brazoria_3857 == to_crs(brazoria_gdf(region), "3857")
        clipped_isds == clean_geoms(clip(to_crs(data.gdf_isds, "3857"), brazoria_3857))
    IN [clipped_cities |-> clipped_cities,
        display_cities |-> display_cities(clipped_cities, ma),
        display_isds   |-> display_isds(mt, clipped_isds),
        display_gdf    |-> main,
        title          |-> title(mt)]

(***************************************************************************)
(* Centroids and label texts.                                              *)
(***************************************************************************)
RECURSIVE SumCenters(_)
SumCenters(cs) ==
    IF cs = {} THEN 0
    ELSE LET c == CHOOSE x \in cs : TRUE IN (2 * c - 1) + SumCenters(cs \ {c})

\* the centroid of a polygonal geometry, in sixths of half a cell, in the
\* coordinates of the frame's CRS
centroid(g, crs) ==
    [crs |-> crs,
     x |-> IF g.cells = {} THEN 0 ELSE (6 * SumCenters(g.cells)) \div Cardinality(g.cells)]

\* label.replace('Independent School District', 'ISD').replace('Consolidated', 'Cons.')
clean_label(name) ==
    [i \in 1 .. Len(name) |->
        IF name[i] = "Independent School District" THEN "ISD"
        ELSE IF name[i] = "Consolidated" THEN "Cons."
        ELSE name[i]]

\* f"{area:.1f}": tenths of a sq mile
fmt_1f(a) == (a + 5) \div 10

(***************************************************************************)
(* Tab 1: the interactive map (app.py, lines 114-146).                     *)
(***************************************************************************)
\* the test of lines 127 and 183
isd_layer_shown(isds) == ~is_none(isds) /\ ~empty(isds)

tab1(p) ==
    LET isds == p.display_isds
        cities_4326 == to_crs(p.display_cities, "4326")
    IN [county_layer |-> to_crs(p.display_gdf, "4326").rows,
        isd_layer    |-> isd_layer_shown(isds),
        isd_rows     |-> IF isd_layer_shown(isds) THEN to_crs(isds, "4326").rows ELSE {},
        markers      |-> {[idx |-> r.idx,
                           location |-> centroid(r.geometry, cities_4326.crs),
                           tooltip |-> [name |-> r.CITY_NM, area |-> fmt_1f(r.area_sq_mi)]] :
                             r \in {q \in cities_4326.rows : ~is_empty(q.geometry)}}]

(***************************************************************************)
(* Tab 2: "Generate Map" (app.py, lines 155-256).  The body of the try     *)
(* block is a sequence of steps; an exception raised in a step ends the    *)
(* block there, before the step has had its effect.                        *)
(***************************************************************************)
StepNames ==
    <<"basemap",       \* 161-177  canvas, limits, cx.add_basemap
      "isds",          \* 183-192  ISD polygons and isd_texts
      "cities",        \* 195-207  region, city polygons and city_texts
      "county_labels", \* 209-215  county names, title, axis off
      "adjust",        \* 218-225  all_texts and adjust_text
      "save_png",      \* 228-232
      "save_pdf",      \* 236-238
      "close",         \* 240
      "success",       \* 242-243  progress(100) and st.success
      "image",         \* 245-247  st.columns and st.image
      "download_png",  \* 248
      "download_pdf">> \* 251-252  st.info and the PDF button

Steps == DOMAIN StepNames

\* the position of a step in the try block
StepIndex == [n \in {StepNames[i] : i \in Steps} |-> CHOOSE i \in Steps : StepNames[i] = n]

At(name) == StepIndex[name]

\* the value of stop when no step raises
Completed == Len(StepNames) + 1

isd_text_objs(isds) ==
    {[kind |-> "isd", idx |-> r.idx, text |-> clean_label(r.NAME),
      pos |-> centroid(r.geometry, isds.crs)] : r \in isds.rows}

city_text_objs(cities) ==
    {[kind |-> "city", idx |-> r.idx, text |-> <<r.CITY_NM>>,
      pos |-> centroid(r.geometry, cities.crs)] : r \in cities.rows}

county_text_objs(bounds_gdf) ==
    {[kind |-> "county", idx |-> r.idx, text |-> <<r.NAME>>,
      pos |-> centroid(r.geometry, bounds_gdf.crs)] : r \in bounds_gdf.rows}

\* the basemap tiles that cover total_bounds of the frame, one per cell
tiles_for(bounds_gdf) ==
    LET cs == union_all(bounds_gdf).cells
    IN {c \in Cells : \E a \in cs : \E b \in cs : a <= c /\ c <= b}

\* line 183: the branch that draws the ISDs and assigns isd_texts
draws_isds(p) == isd_layer_shown(p.display_isds)

\* line 220: the conditional expression evaluates the name isd_texts
reads_isd_texts(p, ua) == ua /\ ~is_none(p.display_isds)

\* the name isd_texts is read without having been assigned: NameError
name_error(p, ua) == reads_isd_texts(p, ua) /\ ~draws_isds(p)

\* a list that also held the county labels
all_texts_with_counties(p) ==
    city_text_objs(p.display_cities)
        \cup (IF draws_isds(p) THEN isd_text_objs(p.display_isds) ELSE {})
        \cup county_text_objs(to_crs(p.display_gdf, "3857"))

\* line 220, when it evaluates
all_texts(p) ==
    city_text_objs(p.display_cities)
        \cup (IF draws_isds(p) THEN isd_text_objs(p.display_isds) ELSE {})

\* step k makes a library call that can raise, and the run gets to it
may_fail_at(p, ua, k) ==
    /\ k \in Steps
    /\ (k = At("isds")) => draws_isds(p)
    /\ (k = At("adjust")) => (ua /\ all_texts(p) # {})
    /\ (k >= At("adjust")) => ~name_error(p, ua)

\* the step at which an exception leaves the try block
stop_at(p, ua, fail_at) ==
    IF fail_at # 0 THEN fail_at
    ELSE IF name_error(p, ua) THEN At("adjust")
    ELSE Completed

\* the except clause (lines 254-256): st.error and my_bar.empty()
except_handler(stop) ==
    [error_shown |-> stop < Completed,
     bar |-> IF stop < Completed THEN "cleared" ELSE "complete"]

\* a success message shown before the files are written
shows_success_before_saving(stop) == At("adjust") < stop

\* lines 242-243 come after the two savefig calls and plt.close
shows_success(stop) == At("success") < stop

idle_export ==
    [pressed |-> FALSE, stop |-> 0, error |-> "none", error_shown |-> FALSE,
     bar |-> "none", isd_layer |-> FALSE, isd_texts_assigned |-> FALSE,
     isd_texts_read |-> FALSE, texts |-> {}, title |-> "", adjust_called |-> FALSE,
     adjust_args |-> {}, adjusted |-> {}, tiles_downloaded |-> FALSE,
     png_written |-> FALSE, pdf_written |-> FALSE, fig_closed |-> FALSE,
     success_shown |-> FALSE, preview_shown |-> FALSE, download_png |-> FALSE,
     download_pdf |-> FALSE]

generate(p, mt, ua, fail_at, tiles) ==
    LET isds == p.display_isds
        bounds_gdf == to_crs(p.display_gdf, "3857")
        stop == stop_at(p, ua, fail_at)
        done(name) == At(name) < stop
        called == ua /\ stop >= At("adjust") /\ ~name_error(p, ua) /\ all_texts(p) # {}
    IN [pressed |-> TRUE,
        stop |-> stop,
        error |-> IF stop = Completed THEN "none"
                  ELSE IF fail_at = 0 THEN "NameError" ELSE "Exception",
        error_shown |-> except_handler(stop).error_shown,
        bar |-> except_handler(stop).bar,
        isd_layer |-> done("isds") /\ draws_isds(p),
        isd_texts_assigned |-> done("isds") /\ draws_isds(p),
        isd_texts_read |-> stop >= At("adjust") /\ reads_isd_texts(p, ua),
        texts |-> (IF done("isds") /\ draws_isds(p) THEN isd_text_objs(isds) ELSE {})
                    \cup (IF done("cities") THEN city_text_objs(p.display_cities) ELSE {})
                    \cup (IF done("county_labels") /\ mt = "gulf"
                          THEN county_text_objs(bounds_gdf) ELSE {}),
        title |-> IF done("county_labels") THEN p.title ELSE "",
        adjust_called |-> called,
        adjust_args |-> IF called THEN all_texts(p) ELSE {},
        adjusted |-> IF called /\ done("adjust") THEN all_texts(p) ELSE {},
        tiles_downloaded |-> done("basemap") /\ ~(tiles_for(bounds_gdf) \subseteq tiles),
        png_written |-> done("save_png"),
        pdf_written |-> done("save_pdf"),
        fig_closed |-> done("close"),
        success_shown |-> shows_success(stop),
        preview_shown |-> done("image"),
        download_png |-> done("download_png"),
        download_pdf |-> done("download_pdf")]

(***************************************************************************)
(* One run of the script, top to bottom.  Streamlit runs it when a session *)
(* opens and again after every interaction with a widget.                  *)
(***************************************************************************)
no_run ==
    [started |-> FALSE, first_of_session |-> FALSE, created_cache_dir |-> FALSE,
     read_shapefiles |-> FALSE, clipped_cities |-> Gdf("3857", {}),
     display_cities |-> Gdf("3857", {}), display_isds |-> NoneValue,
     display_gdf |-> Gdf("4269", {}), title |-> "",
     tab1 |-> [county_layer |-> {}, isd_layer |-> FALSE, isd_rows |-> {}, markers |-> {}],
     export |-> idle_export]

ScriptRun(p, mt, ma, ua, pressed, fail_at, first) ==
    /\ cache_dir_exists' = TRUE                    \* lines 18-21
    /\ load_data_cache' = TRUE                     \* lines 34-47
    /\ map_type' = mt
    /\ min_area' = ma
    /\ use_adjust_text' = ua
    /\ run' = [started |-> TRUE,
               first_of_session |-> first,
               created_cache_dir |-> ~cache_dir_exists,
               read_shapefiles |-> ~load_data_cache,
               clipped_cities |-> p.clipped_cities,
               display_cities |-> p.display_cities,
               display_isds |-> p.display_isds,
               display_gdf |-> p.display_gdf,
               title |-> p.title,
               tab1 |-> tab1(p),
               export |-> IF pressed THEN generate(p, mt, ua, fail_at, tile_cache)
                          ELSE idle_export]
    /\ tile_cache' = IF pressed /\ At("basemap") < stop_at(p, ua, fail_at)
                     THEN tile_cache \cup tiles_for(to_crs(p.display_gdf, "3857"))
                     ELSE tile_cache
    /\ UNCHANGED <<county_shp, cities_shp, isd_shp, gdf_in, gdf_out>>

MapTypes == {"gulf", "brazoria"}

\* slider positions: the minimum, the area of a one-cell city, the default
SliderValues == {0, 386, 500}

\* a session that took over the widget values of the one before
NewSessionKeepsWidgets ==
    /\ session < MaxSessions
    /\ session' = session + 1
    /\ IF session = 0
       THEN ScriptRun(prepare("gulf", 500), "gulf", 500, TRUE, FALSE, 0, TRUE)
       ELSE ScriptRun(prepare(map_type, min_area), map_type, min_area,
                      use_adjust_text, FALSE, 0, TRUE)

\* a browser opens the app: the widgets take their defaults (lines 69, 72,
\* 153), no button is pressed
NewSession ==
    /\ session < MaxSessions
    /\ session' = session + 1
    /\ ScriptRun(prepare("gulf", 500), "gulf", 500, TRUE, FALSE, 0, TRUE)

\* the first and only session of Spec
OpenApp == session = 0 /\ NewSession

\* the user moves one widget: the region, the slider or the checkbox
ChangeWidget ==
    /\ session >= 1
    /\ \E mt \in MapTypes, ma \in SliderValues, ua \in BOOLEAN :
          /\ \/ mt # map_type /\ ma = min_area /\ ua = use_adjust_text
             \/ mt = map_type /\ ma # min_area /\ ua = use_adjust_text
             \/ mt = map_type /\ ma = min_area /\ ua # use_adjust_text
          /\ ScriptRun(prepare(mt, ma), mt, ma, ua, FALSE, 0, FALSE)
    /\ UNCHANGED session

\* the user presses "Generate Map"
GenerateMap ==
    /\ session >= 1
    /\ LET p == prepare(map_type, min_area)
       IN \E fail_at \in {0} \cup Steps :
             /\ fail_at # 0 => may_fail_at(p, use_adjust_text, fail_at)
             /\ ScriptRun(p, map_type, min_area, use_adjust_text, TRUE, fail_at, FALSE)
    /\ UNCHANGED session

\* a direct call of clean_geoms
CallCleanGeoms ==
    /\ gdf_out.kind = "pending"
    /\ gdf_out' = clean_geoms(gdf_in)
    /\ UNCHANGED <<county_shp, cities_shp, isd_shp, cache_dir_exists, tile_cache,
                   load_data_cache, session, map_type, min_area, use_adjust_text,
                   run, gdf_in>>

(***************************************************************************)
(* Initial states.                                                         *)
(***************************************************************************)
\* the polygons a city or a district may have: parts of the three Texas cells
Shapes == {cs \in SUBSET TexasCells : cs # {} /\ Cardinality(cs) <= MaxCityCells}

CityRow(i, name, cs) == [idx |-> i, CITY_NM |-> name, geometry |-> Poly(cs)]

IsdRow(i, name, cs) == [idx |-> i, NAME |-> name, geometry |-> Poly(cs)]

\* Cities.shp: Bay City, in Matagorda County, and a city of any shape or none
CityFiles ==
    {(IF cs = {} THEN {} ELSE {CityRow(1, "Alvin", cs)}) \cup {CityRow(2, "Bay City", {2})} :
        cs \in Shapes \cup {{}}}

\* tl_2025_48_unsd.shp: one district of any shape, or none
IsdFiles ==
    {(IF cs = {} THEN {} ELSE {IsdRow(1, <<"Alvin", "Independent School District">>, cs)}) :
        cs \in Shapes \cup {{}}}

InitState ==
    /\ county_shp = shrink(tl_2025_us_county).rows
    /\ cache_dir_exists = FALSE
    /\ tile_cache = {}
    /\ load_data_cache = FALSE
    /\ session = 0
    /\ map_type = "gulf"
    /\ min_area = 500
    /\ use_adjust_text = TRUE
    /\ run = no_run

Init ==
    /\ InitState
    /\ cities_shp \in CityFiles
    /\ isd_shp \in IsdFiles
    /\ gdf_in = NoneValue
    /\ gdf_out = NoneValue

Next == OpenApp \/ ChangeWidget \/ GenerateMap

Spec == Init /\ [][Next]_vars

\* several sessions, one after the other, over one data set
InitSessions ==
    /\ InitState
    /\ cities_shp = {CityRow(1, "Alvin", {1}), CityRow(2, "Bay City", {2})}
    /\ isd_shp \in IsdFiles
    /\ gdf_in = NoneValue
    /\ gdf_out = NoneValue

NextSessions == NewSession \/ ChangeWidget \/ GenerateMap

SpecSessions == InitSessions /\ [][NextSessions]_vars

\* clean_geoms on its own, over frames of every kind of geometry
GeomSamples ==
    {Poly({1}), Poly({1, 3}), MkGeom({}, {1}, {}), MkGeom({}, {1, 2}, {}),
     MkGeom({}, {}, {"p"}), MkGeom({1}, {2}, {}),
     EmptyGeom("Polygon"), EmptyGeom("MultiPolygon"), EmptyGeom("GeometryCollection")}

Frames ==
    {Gdf("3857", {[idx |-> i, geometry |-> f[i]] : i \in {j \in 1 .. MaxRows : f[j] # NoneValue}}) :
        f \in [1 .. MaxRows -> GeomSamples \cup {NoneValue}]}

InitClean ==
    /\ InitState
    /\ cities_shp = {}
    /\ isd_shp = {}
    /\ gdf_in \in Frames \cup {NoneValue}
    /\ gdf_out = [kind |-> "pending"]

NextClean == CallCleanGeoms

SpecClean == InitClean /\ [][NextClean]_vars

(***************************************************************************)
(* Properties.                                                             *)
(***************************************************************************)
\* a non-empty point set made of cells only: what a Polygon or MultiPolygon is
IsPolygonal(g) == g.cells # {} /\ g.lines = {} /\ g.points = {}

\* C1: clean_geoms returns exactly the rows whose geometry is non-empty and
\* polygonal (lines, points and collections go, no polygonal row goes), and
\* returns None or a frame without rows unchanged.
C1_CleanGeomsExact ==
    (gdf_out.kind # "pending") =>
        IF is_none(gdf_in) THEN gdf_out = gdf_in
        ELSE IF gdf_in.rows = {} THEN gdf_out = gdf_in
        ELSE /\ gdf_out.kind = "GeoDataFrame"
             /\ gdf_out.crs = gdf_in.crs
             /\ gdf_out.rows = {r \in gdf_in.rows : IsPolygonal(r.geometry)}

\* a frame with a polygon, which is kept, and a geometry collection, which is dropped
C1_Witness ==
    /\ gdf_out.kind = "GeoDataFrame"
    /\ gdf_out.rows # {}
    /\ \E r \in gdf_in.rows \ gdf_out.rows :
          r.geometry.type = "GeometryCollection" /\ ~is_empty(r.geometry)

\* C2: in both modes and at every slider position, display_cities is exactly
\* the clipped, cleaned cities whose area_sq_mi is at least min_area; at
\* min_area = 0 every clipped city is displayed.
C2_DisplayCitiesFilter ==
    run.started =>
        /\ run.display_cities.rows \subseteq run.clipped_cities.rows
        /\ \A r \in run.clipped_cities.rows :
              (r \in run.display_cities.rows) <=> (r.area_sq_mi >= min_area)
        /\ (min_area = 0) => (run.display_cities.rows = run.clipped_cities.rows)

\* a displayed city whose area equals a positive min_area
C2_Witness ==
    /\ run.started
    /\ min_area > 0
    /\ \E r \in run.display_cities.rows : r.area_sq_mi = min_area

\* the boundary of the selected mode, from the county file
BoundaryRows(mt) ==
    {c \in county_shp :
        /\ c.STATEFP = "48"
        /\ IF mt = "gulf" THEN c.NAME \in target_counties ELSE c.NAME = "Brazoria"}

BoundaryCells(mt) == UNION {c.geometry.cells : c \in BoundaryRows(mt)}

\* row r of a displayed frame is the source row src cut to the boundary
IsClipOf(r, src, mt) ==
    /\ r.idx = src.idx
    /\ r.geometry.cells = src.geometry.cells \cap BoundaryCells(mt)
    /\ r.geometry.cells # {}
    /\ IsPolygonal(r.geometry)
    /\ Within(r.geometry, Poly(BoundaryCells(mt)))

\* C3: every displayed city, and in Brazoria mode every displayed ISD, is the
\* intersection of its input geometry with the boundary of the mode (the
\* union of the Texas counties with one of the 13 target names, or the one
\* Brazoria county) and lies inside it; an input that shares no area with
\* the boundary is not displayed.
C3_DisplayedInsideBoundary ==
    run.started =>
        /\ Cardinality(target_counties) = 13
        /\ Cardinality(BoundaryRows("brazoria")) = 1
        /\ run.display_gdf.rows = BoundaryRows(map_type)
        /\ \A r \in run.display_cities.rows :
              \E src \in cities_shp : IsClipOf(r, src, map_type)
        /\ \A src \in cities_shp :
              (src.geometry.cells \cap BoundaryCells(map_type) = {}) =>
                  ~\E r \in run.display_cities.rows : r.idx = src.idx
        /\ (map_type = "brazoria") =>
              /\ ~is_none(run.display_isds)
              /\ \A r \in run.display_isds.rows :
                    \E src \in isd_shp : IsClipOf(r, src, map_type)
              /\ \A src \in isd_shp :
                    (src.geometry.cells \cap BoundaryCells(map_type) = {}) =>
                        ~\E r \in run.display_isds.rows : r.idx = src.idx

\* Brazoria mode: a city cut down by the boundary is displayed, and a city
\* that only touches the county line is not
C3_Witness ==
    /\ run.started
    /\ map_type = "brazoria"
    /\ \E r \in run.display_cities.rows : \E src \in cities_shp :
          r.idx = src.idx /\ r.geometry.cells # src.geometry.cells
    /\ \E src \in cities_shp : \A r \in run.display_cities.rows : r.idx # src.idx

\* the step of the export has had its effect
ExportDid(name) == run.export.pressed /\ At(name) < run.export.stop

\* C4: ISDs are shown in Brazoria mode only.  In Gulf Coast mode
\* display_isds is None and neither output has an ISD layer or an ISD
\* label; in Brazoria mode both outputs draw the ISD layer exactly when the
\* clipped, cleaned ISD set has rows.
C4_IsdsOnlyInBrazoria ==
    run.started =>
        /\ (map_type = "gulf") =>
              /\ is_none(run.display_isds)
              /\ ~run.tab1.isd_layer
              /\ run.tab1.isd_rows = {}
              /\ ~run.export.isd_layer
              /\ \A t \in run.export.texts : t.kind # "isd"
        /\ (map_type = "brazoria") =>
              /\ ~is_none(run.display_isds)
              /\ run.tab1.isd_layer <=> (run.display_isds.rows # {})
              /\ ExportDid("isds") =>
                    (run.export.isd_layer <=> (run.display_isds.rows # {}))

\* Brazoria mode with a district inside the county: both outputs draw it
C4_Witness ==
    /\ run.started
    /\ map_type = "brazoria"
    /\ run.tab1.isd_layer
    /\ run.export.isd_layer
    /\ \E t \in run.export.texts : t.kind = "isd"

\* the labels of kind k handed to adjust_text for the row r of a frame
ArgsFor(k, r) == {t \in run.export.adjust_args : t.kind = k /\ t.idx = r.idx}

\* C5: adjust_text runs only when the checkbox is set and a city or ISD label
\* exists; it is given exactly one label per displayed city and one per
\* displayed ISD, each anchored at the centroid of its polygon; the county
\* labels are never given to it and stay where they were put.
C5_AdjustTextArguments ==
    run.export.pressed =>
        /\ run.export.adjust_called =>
              /\ use_adjust_text
              /\ run.export.adjust_args # {}
              /\ \A t \in run.export.adjust_args : t.kind \in {"city", "isd"}
              /\ \A r \in run.display_cities.rows :
                    /\ Cardinality(ArgsFor("city", r)) = 1
                    /\ \A t \in ArgsFor("city", r) :
                          t.pos = centroid(r.geometry, "3857")
              /\ \A t \in run.export.adjust_args :
                    (t.kind = "city") => \E r \in run.display_cities.rows : t.idx = r.idx
              /\ \A t \in run.export.adjust_args :
                    (t.kind = "isd") =>
                        /\ ~is_none(run.display_isds)
                        /\ \E r \in run.display_isds.rows :
                              t.idx = r.idx /\ t.pos = centroid(r.geometry, "3857")
              /\ ~is_none(run.display_isds) =>
                    \A r \in run.display_isds.rows : Cardinality(ArgsFor("isd", r)) = 1
        /\ ~run.export.adjust_called => run.export.adjust_args = {}
        /\ run.export.adjusted \subseteq run.export.adjust_args
        /\ \A t \in run.export.texts :
              (t.kind = "county") =>
                  t \notin run.export.adjust_args /\ t \notin run.export.adjusted

\* Gulf Coast mode: adjust_text has moved city labels, county labels are on the map
C5_Witness ==
    /\ run.export.pressed
    /\ run.export.adjust_called
    /\ \E t \in run.export.adjusted : t.kind = "city"
    /\ \E t \in run.export.texts : t.kind = "county"

NoSuccessOutput ==
    /\ ~run.export.success_shown
    /\ ~run.export.preview_shown
    /\ ~run.export.download_png
    /\ ~run.export.download_pdf

\* C6 as stated: whenever a step of "Generate Map" raises, the error is
\* shown, the progress bar is cleared, and there is no success message,
\* preview or download button.
C6_ErrorLeavesNoSuccessOutput ==
    (run.export.pressed /\ run.export.error # "none") =>
        /\ run.export.error_shown
        /\ run.export.bar = "cleared"
        /\ NoSuccessOutput

\* C6, amended: an exception in any step shows the error and clears the
\* progress bar; when it is raised before st.success has run there is no
\* success message, preview or download button; the success message, the
\* preview and the buttons appear only after the PNG and the PDF are written
\* and the figure is closed; a run without exception shows all of them.
C6_ErrorHandling ==
    run.export.pressed =>
        /\ (run.export.error # "none") =>
              /\ run.export.error_shown
              /\ run.export.bar = "cleared"
              /\ (run.export.stop <= At("success")) => NoSuccessOutput
        /\ ~NoSuccessOutput =>
              /\ run.export.png_written
              /\ run.export.pdf_written
              /\ run.export.fig_closed
        /\ (run.export.error = "none") =>
              /\ ~run.export.error_shown
              /\ run.export.success_shown
              /\ run.export.download_png
              /\ run.export.download_pdf

\* savefig of the PDF raises after the PNG was written: an error, no success
C6_Witness ==
    /\ run.export.pressed
    /\ run.export.error = "Exception"
    /\ run.export.png_written
    /\ ~run.export.pdf_written
    /\ NoSuccessOutput

\* C7 as stated: a session finds nothing an earlier one wrote or cached: it
\* creates the tile cache directory, reads the shapefiles and finds no tile.
C7_NothingPersists ==
    run.first_of_session =>
        /\ run.created_cache_dir
        /\ run.read_shapefiles
        /\ tile_cache = {}

\* C7, amended: widget values and export output do not carry over (every
\* session starts at the defaults, with nothing generated), but the tile
\* cache directory, the tiles in it and the cached shapefile load do: from
\* the second session on the directory is found, not created, and the
\* shapefiles are not read again.
C7_OnlyCachesPersist ==
    run.first_of_session =>
        /\ map_type = "gulf"
        /\ min_area = 500
        /\ use_adjust_text
        /\ run.export = idle_export
        /\ (session >= 2) => (~run.created_cache_dir /\ ~run.read_shapefiles)
        /\ (session = 1) => (run.created_cache_dir /\ run.read_shapefiles /\ tile_cache = {})

\* a second session opens after the first one has downloaded tiles
C7_Witness ==
    /\ run.first_of_session
    /\ session = 2
    /\ tile_cache # {}
    /\ cache_dir_exists
    /\ load_data_cache

\* C8 as stated: with auto-adjust on and no library call failing, "Generate
\* Map" completes, and isd_texts is assigned whenever step 4 reads it.
C8_GenerateCompletes ==
    (run.export.pressed /\ use_adjust_text /\ run.export.error # "Exception") =>
        /\ run.export.error = "none"
        /\ run.export.success_shown
        /\ run.export.isd_texts_read => run.export.isd_texts_assigned

\* the area of the whole input polygon, in hundredths of a sq mile
WholeArea(src) == (10 * Cardinality(src.geometry.cells) * 386102) \div 10000

\* C9: area_sq_mi is the area of the city's full geometry in EPSG:3857 and
\* survives clip and clean_geoms unchanged: the filter and the tooltip of a
\* city that reaches beyond the boundary use the area of the whole city.
C9_AreaOfWholeCity ==
    run.started =>
        /\ \A r \in run.clipped_cities.rows : \E src \in cities_shp :
              /\ src.idx = r.idx
              /\ r.area_sq_mi = WholeArea(src)
              /\ (r \in run.display_cities.rows) <=> (WholeArea(src) >= min_area)
        /\ \A m \in run.tab1.markers : \E src \in cities_shp :
              /\ src.idx = m.idx
              /\ m.tooltip.area = (WholeArea(src) + 5) \div 10

\* a displayed city that reaches beyond the boundary, with its tooltip
C9_Witness ==
    /\ run.started
    /\ \E r \in run.display_cities.rows : \E src \in cities_shp :
          /\ src.idx = r.idx
          /\ r.geometry.cells # src.geometry.cells
          /\ r.area_sq_mi > (10 * Cardinality(r.geometry.cells) * 386102) \div 10000
          /\ \E m \in run.tab1.markers : m.idx = r.idx

====
